---- MODULE Spec2Model ----
(***************************************************************************)
(* A model of the VX delegate of src/delegate_main.cc: the legality walk   *)
(* over the host's execution plan (PrepareDelegate / SupportedOp), the     *)
(* subgraph extraction (Delegate::Init), the lazy one-time graph build and *)
(* the per-invocation copy-in / run / copy-out / state-copy of             *)
(* Delegate::Invoke, and the tensor-spec conversion (CreateTensorSpec).    *)
(*                                                                         *)
(* Conventions.  C++ vectors are TLA+ sequences; a 0-based index i of the  *)
(* code is position i+1 of the sequence.  The tables tensors_ and          *)
(* state_tensors_ are functions over 0 .. tensors_size.  A null pointer is *)
(* NullPtr (names), NullHandle (accelerator tensors) or NullData (bytes).  *)
(* Tensor bytes are provenance tokens [src, n, t]: who wrote them (the     *)
(* host, the model file, run number n of accelerator tensor t), so that    *)
(* a copy is visible as the same token turning up at another place.        *)
(* TFLITE_LOG(FATAL) ends the process (the logging wrapper calls           *)
(* std::abort() when the FATAL message is flushed); that is phase          *)
(* "aborted", after which nothing of the instance runs.                    *)
(***************************************************************************)
EXTENDS Integers, Sequences, FiniteSets, TLC

\* ------------------------------------------------------------------ bounds
\* Tensors of the host context (context->tensors_size).
NumTensors == 3
\* Longest execution plan of the legality-rich initial states.
MaxPlan == 3
\* Most nodes of a subgraph in the tensor-rich initial states.
MaxNodes == 2
\* Invocations of one SubgraphInstance.
MaxInvokes == 2
\* Highest rank of a host shape handed to CreateTensorSpec.
MaxRank == 4
\* Calls of the delegate-handle entry points by one client.
MaxCalls == 4

TensorIds == 0 .. (NumTensors - 1)

\* ----------------------------------------------------------------- helpers
NullPtr == "nullptr"
NullHandle == 0
\* kTfLiteOptionalTensor, the index of an absent optional operand.
OptionalTensor == 0 - 1

Token(s, k, h) == [src |-> s, n |-> k, t |-> h]
NullData == Token("null", 0, 0)

RECURSIVE SeqReverse(_)
SeqReverse(s) == IF s = <<>> THEN <<>> ELSE Append(SeqReverse(Tail(s)), Head(s))

RECURSIVE SeqFilter(_, _)
SeqFilter(s, keep) ==
  IF s = <<>> THEN <<>>
  ELSE IF Head(s) \in keep THEN <<Head(s)>> \o SeqFilter(Tail(s), keep)
       ELSE SeqFilter(Tail(s), keep)

SeqRange(s) == {s[i] : i \in 1 .. Len(s)}

\* Strictly increasing sequence of the members of a set of integers.
RECURSIVE SortedSeq(_)
SortedSeq(S) ==
  IF S = {} THEN <<>>
  ELSE LET m == CHOOSE x \in S : \A y \in S : x <= y
       IN <<m>> \o SortedSeq(S \ {m})

\* All sequences over S of length 0 .. n.
RECURSIVE SeqsUpTo(_, _)
SeqsUpTo(S, n) ==
  IF n = 0 THEN {<<>>}
  ELSE LET shorter == SeqsUpTo(S, n - 1)
       IN shorter \cup {Append(s, x) : s \in {q \in shorter : Len(q) = n - 1}, x \in S}

\* ------------------------------------------------------ operator registries
\* Keys of vx::op_map::SupportedBuiltinCustomOps() and SupportedBuiltinOps().
SupportedBuiltinCustomOps == {"vx_custom"}
SupportedBuiltinOps == {0}

CustomNames == {NullPtr, "vx_custom", "other_custom"}
BuiltinCodes == {0, 32}

\* A TfLiteRegistration as the delegate reads it, with the answer the catalog
\* entry consulted for this node gives to IsSupported.
Registrations ==
  {r \in [custom_name : CustomNames, builtin_code : BuiltinCodes, entry_ok : BOOLEAN] :
     \* the answer of an entry that is never found is immaterial: keep one copy
     (r.custom_name \notin SupportedBuiltinCustomOps
        /\ r.builtin_code \notin SupportedBuiltinOps) => ~r.entry_ok}

\* Delegate::SupportedOp: the custom registry by name, else the builtin
\* registry by code, else false.
SupportedOp(reg) ==
  IF reg.custom_name # NullPtr /\ reg.custom_name \in SupportedBuiltinCustomOps
    THEN reg.entry_ok
    ELSE IF reg.builtin_code \in SupportedBuiltinOps
           THEN reg.entry_ok
           ELSE FALSE

\* The loop of PrepareDelegate over the plan: the node ids SupportedOp accepts.
RECURSIVE SupportedNodesOf(_, _)
SupportedNodesOf(plan, regs) ==
  IF plan = <<>> THEN <<>>
  ELSE (IF SupportedOp(regs[Head(plan)]) THEN <<Head(plan)>> ELSE <<>>)
         \o SupportedNodesOf(Tail(plan), regs)

\* The array of PrepareDelegate with the count written as the vector's size.
CountPrefixedOffByOne(accepted) == <<Len(accepted) + 1>> \o accepted

\* supported_nodes as handed to ReplaceNodeSubsetsWithDelegateKernels:
\* element 0 is size() - 1, then the accepted ids.
CountPrefixed(accepted) == <<Len(accepted)>> \o accepted

\* Delegate::Init's registry choice for one node: the custom registry when
\* the copied custom name is not empty, the builtin registry otherwise;
\* std::map::at throws when the key is absent.
InitFindsEntry(reg) ==
  LET custom_name == IF reg.custom_name # NullPtr THEN reg.custom_name ELSE ""
      isbuiltinOp == custom_name = ""
  IN IF isbuiltinOp THEN reg.builtin_code \in SupportedBuiltinOps
     ELSE custom_name \in SupportedBuiltinCustomOps

\* ------------------------------------------------------------- TensorBridge
\* TfLiteTensorDims: the host shape of a descriptor, in host axis order.
TfLiteTensorDims(tensor) == tensor.dims

\* A loop that scatters instead: whcn_shape[perm[i]] = dims[i].
ShapeScatter(dims, perm) ==
  [j \in 1 .. Len(perm) |-> dims[CHOOSE i \in 1 .. Len(perm) : perm[i] + 1 = j]]

\* The gather of CreateTensorSpec into whcn_shape, which was sized by the
\* rank read before the scalar promotion: entry i is dims[perm[i]].
ShapeGather(dims, perm) == [i \in 1 .. Len(perm) |-> dims[perm[i] + 1]]

\* What the permuted branch leaves in whcn_shape when the assert on the
\* permutation's length is compiled out (NDEBUG) and fails: the entries the
\* loop wrote, then the zeros the vector was made with, reversed.
WhcnShapeNoAssert(hostDims, perm) ==
  LET rank0 == Len(hostDims)
      dims == IF rank0 = 0 THEN <<1>> ELSE hostDims
  IN IF Len(perm) > rank0 \/ \E i \in 1 .. Len(perm) : perm[i] >= Len(dims)
       THEN [res |-> "ub", shape |-> <<>>]
       ELSE [res |-> "ok",
             shape |-> SeqReverse([i \in 1 .. rank0 |->
                                     IF i <= Len(perm) THEN dims[perm[i] + 1] ELSE 0])]

\* The shape of a spec that reverses the host shape first and gathers second.
WhcnShapeReverseFirst(hostDims, perm) ==
  LET dims == IF hostDims = <<>> THEN <<1>> ELSE hostDims
      r == SeqReverse(dims)
  IN IF Len(perm) > 0 /\ Len(perm) = Len(dims)
       THEN [res |-> "ok", shape |-> [i \in 1 .. Len(perm) |-> r[perm[i] + 1]]]
       ELSE [res |-> IF Len(perm) > 0 THEN "assert" ELSE "ok", shape |-> r]

\* The shape part of CreateTensorSpec.  res is "ok", or "assert" when the
\* assert on the permutation's length fails, or "ub" when the gather reads
\* or writes outside a vector (a rank-0 shape with a permutation writes
\* element 0 of the empty whcn_shape).
WhcnShape(hostDims, perm) ==
  LET rank0 == Len(hostDims)
      dims == IF rank0 = 0 THEN <<1>> ELSE hostDims
  IN IF Len(perm) > 0
       THEN IF Len(perm) # Len(dims)
              THEN [res |-> "assert", shape |-> <<>>]
              ELSE IF Len(perm) > rank0 \/ \E i \in 1 .. Len(perm) : perm[i] >= Len(dims)
                     THEN [res |-> "ub", shape |-> <<>>]
                     ELSE [res |-> "ok", shape |-> SeqReverse(ShapeGather(dims, perm))]
       ELSE [res |-> "ok", shape |-> SeqReverse(dims)]

\* TfLiteDtypeToVsiDtype: a type outside the switch is logged and becomes
\* FLOAT32.
TfLiteDtypeToVsiDtype(type) ==
  IF type = "kTfLiteFloat32" THEN "FLOAT32"
  ELSE IF type = "kTfLiteInt32" THEN "INT32"
  ELSE IF type = "kTfLiteUInt8" THEN "UINT8"
  ELSE IF type = "kTfLiteInt16" THEN "INT16"
  ELSE IF type \in {"kTfLiteInt8", "kTfLiteBool"} THEN "INT8"
  ELSE IF type = "kTfLiteFloat16" THEN "FLOAT16"
  ELSE "FLOAT32"

\* Quantization metadata of a descriptor: none, or affine with a number of
\* scales and the quantized dimension.
NoQuantization == [type |-> "kTfLiteNoQuantization", scales |-> 0, quantized_dimension |-> 0]

AffineQuantization(n, q) ==
  [type |-> "kTfLiteAffineQuantization", scales |-> n, quantized_dimension |-> q]

\* vx::delegate::utils::ConvertAxis for an axis that is not negative.
ConvertAxis(axis, dim_num) == dim_num - 1 - axis

\* The quantization part of CreateTensorSpec; rank is dims.size() after the
\* scalar promotion.
SpecQuantization(quantization, rank) ==
  IF quantization.type = "kTfLiteAffineQuantization"
    THEN IF quantization.scales > 1
           THEN [qtype |-> "SYMMETRIC_PER_CHANNEL",
                 channel_dim |-> ConvertAxis(quantization.quantized_dimension, rank)]
           ELSE [qtype |-> "ASYMMETRIC", channel_dim |-> OptionalTensor]
    ELSE [qtype |-> "NONE", channel_dim |-> OptionalTensor]

\* CreateTensorSpec: element type, shape, storage class and quantization of
\* the accelerator tensor.
CreateTensorSpec(tensor, perm, attr) ==
  LET dims == TfLiteTensorDims(tensor)
  IN [datatype |-> TfLiteDtypeToVsiDtype(tensor.type),
      shape |-> WhcnShape(dims, perm),
      attr |-> attr,
      quantization |-> SpecQuantization(tensor.quantization,
                                        IF dims = <<>> THEN 1 ELSE Len(dims))]

\* IsConstTensor: the descriptor's raw data pointer is not null.
IsConstTensor(data) == data # NullData

\* IsVariableTensor.
IsVariableTensor(tensor) == tensor.is_variable

\* Element types the switch of TransposeTensorData has a case for.
TransposableTypes ==
  {"kTfLiteFloat32", "kTfLiteInt32", "kTfLiteInt16", "kTfLiteFloat16", "kTfLiteUInt8",
   "kTfLiteInt8"}

\* TransposeTensorData: fails without data and for an element type outside
\* the switch; otherwise the bytes moved by perm.
TransposeTensorData(tensor, data, perm) ==
  IF data = NullData \/ tensor.type \notin TransposableTypes
    THEN [ok |-> FALSE, data |-> NullData]
    ELSE [ok |-> TRUE, data |-> Token("transposed", data.n, data.t)]

\* CreateTensor: the accelerator tensor made for a host descriptor whose
\* bytes are data.  Only a CONSTANT is bound to bytes: the transposed ones
\* when a permutation is given and the transpose succeeds, the bytes behind
\* the descriptor's pointer in every other case.
CreateTensor(tensor, data, attr, perm) ==
  LET spec == CreateTensorSpec(tensor, perm, attr)
      moved == TransposeTensorData(tensor, data, perm)
      bytes == IF attr = "CONSTANT"
                 THEN IF Len(perm) > 0 /\ moved.ok THEN moved.data ELSE data
                 ELSE NullData
  IN [created |-> TRUE,
      attr |-> attr, shape |-> spec.shape.shape, data |-> bytes,
      datatype |-> spec.datatype, quantization |-> spec.quantization]

\* size_t arithmetic.  The int index is converted to size_t and the sum
\* wraps at the word size; a word of 30 bits stands for the 64 of size_t,
\* the wrapped sum being index + size at either width for every index from
\* -size on.
SizeTModulus == 2 ^ 30
ToSizeT(index) == index % SizeTModulus
SizeTSum(a, b) == (a + b) % SizeTModulus

\* A resolution against a table without the placeholder's slot.
MapIndexToTensorNoSlot(table, index) ==
  table[SizeTSum(ToSizeT(index), NumTensors) % NumTensors]

\* MapIndexesToTensors for one index:
\* tensors[(index + tensors.size()) % tensors.size()].
MapIndexToTensor(table, index) ==
  LET size == Cardinality(DOMAIN table)
  IN table[SizeTSum(ToSizeT(index), size) % size]

MapIndexesToTensors(table, indexes) ==
  [i \in 1 .. Len(indexes) |-> MapIndexToTensor(table, indexes[i])]

\* ------------------------------------------------------------ host context
\* A host tensor descriptor: shape, allocation type, the variable flag and
\* the bytes its raw pointer shows when the delegate is created.
ConstTensor(t, d) ==
  [dims |-> d, type |-> "kTfLiteFloat32", quantization |-> NoQuantization,
   allocation_type |-> "kTfLiteMmapRo", is_variable |-> FALSE,
   init |-> Token("model", 0, t)]
ArenaTensor(t, d) ==
  [dims |-> d, type |-> "kTfLiteFloat32", quantization |-> NoQuantization,
   allocation_type |-> "kTfLiteArenaRw", is_variable |-> FALSE,
   init |-> Token("host", 0, t)]
VariableTensor(t, d) ==
  [dims |-> d, type |-> "kTfLiteFloat32", quantization |-> NoQuantization,
   allocation_type |-> "kTfLiteArenaRwPersistent", is_variable |-> TRUE,
   init |-> Token("host", 0, t)]
UnallocatedTensor(t, d) ==
  [dims |-> d, type |-> "kTfLiteFloat32", quantization |-> NoQuantization,
   allocation_type |-> "kTfLiteArenaRw", is_variable |-> FALSE,
   init |-> NullData]

\* Tensor t of the host context has rank t: a scalar, a vector, a matrix, ...
HostDims(t) == [i \in 1 .. t |-> i + 1]

TensorKinds == {"const", "arena", "variable", "unallocated"}

HostTensor(kind, t) ==
  IF kind = "const" THEN ConstTensor(t, HostDims(t))
  ELSE IF kind = "arena" THEN ArenaTensor(t, HostDims(t))
  ELSE IF kind = "variable" THEN VariableTensor(t, HostDims(t))
  ELSE UnallocatedTensor(t, HostDims(t))

\* A node of the host graph with what its catalog entry answers:
\* GetStateTensorIndexes (the indexes it reports and its return value) and
\* whether the node carries parameter data.
Node(ins, outs, sts, ok, params) ==
  [inputs |-> ins, outputs |-> outs, states |-> sts, statesOk |-> ok,
   has_params |-> params]

StateModes == {"none", "in", "out"}

\* A node reading tensor a (and an absent optional operand when opt) and
\* writing tensor c; its state tensor is none, its input or its output.
NodeShape(a, opt, c, sm) ==
  Node(IF opt THEN <<a, OptionalTensor>> ELSE <<a>>, <<c>>,
       IF sm = "in" THEN <<a>> ELSE IF sm = "out" THEN <<c>> ELSE <<>>,
       sm # "none", ~opt)

\* The nodes of a chain over the tensors: node a -> a + 1.
NodeShapes(opt) ==
  {NodeShape(a, opt, a + 1, sm) : a \in 0 .. (NumTensors - 2), sm \in StateModes}

\* Nodes with a second operand: node a -> a + 1 also reads the last tensor,
\* as an operator reads its weights.
WeightedNodeShapes ==
  {Node(<<a, NumTensors - 1>>, <<a + 1>>,
        IF sm = "in" THEN <<a>> ELSE IF sm = "out" THEN <<a + 1>> ELSE <<>>,
        sm # "none", TRUE) : a \in 0 .. (NumTensors - 3), sm \in StateModes}

\* Tensors written by a node of the list, and tensors read from outside it.
ProducedBy(nodes) == UNION {SeqRange(nodes[i].outputs) : i \in DOMAIN nodes}
ConsumedBy(nodes) ==
  UNION {SeqRange(nodes[i].inputs) : i \in DOMAIN nodes} \ {OptionalTensor}
StatesOf(nodes) ==
  UNION {IF nodes[i].statesOk THEN SeqRange(nodes[i].states) ELSE {} : i \in DOMAIN nodes}

\* What the host guarantees of the tensors of a node subset: a tensor a node
\* writes is runtime memory (allocated or not yet), not model data and not a
\* variable; a tensor read from outside has memory (model data, arena or
\* persistent); memory the delegate copies into (outputs, states) is
\* allocated; a state tensor read from outside is a variable tensor; an
\* untouched tensor has no memory yet.
AllowedKinds(t, nodes, outs) ==
  LET produced == t \in ProducedBy(nodes)
      consumed == t \in ConsumedBy(nodes)
      state == t \in StatesOf(nodes)
      copied == t \in SeqRange(outs) \/ state
  IN IF produced
       THEN IF copied THEN {"arena"} ELSE {"arena", "unallocated"}
       ELSE IF state THEN {"variable"}
       ELSE IF consumed THEN {"const", "arena", "variable"}
       ELSE {"unallocated"}

\* params->input_tensors as the host's partitioner computes it: the tensors
\* the subset reads and does not write, in increasing order.
HostInputTensors(nodes) == SortedSeq(ConsumedBy(nodes) \ ProducedBy(nodes))

BuiltinReg == [custom_name |-> NullPtr, builtin_code |-> 0, entry_ok |-> TRUE]
CustomReg == [custom_name |-> "vx_custom", builtin_code |-> 32, entry_ok |-> TRUE]

\* 0-based function from a sequence.
ZeroBased(s) == [i \in 0 .. (Len(s) - 1) |-> s[i + 1]]

\* Node lists of the tensor-rich host contexts.
\* An execution plan is in topological order and a tensor has one producer:
\* no node writes a tensor that an earlier node of the list writes or reads.
PlanOrdered(ns) ==
  \A i, j \in DOMAIN ns :
    i < j => SeqRange(ns[j].outputs)
               \cap (SeqRange(ns[i].outputs) \cup SeqRange(ns[i].inputs)) = {}

NodeLists ==
  {ns \in UNION {SeqsUpTo(shapes, MaxNodes) \ {<<>>} :
                   shapes \in {NodeShapes(FALSE), NodeShapes(TRUE), WeightedNodeShapes}} :
     PlanOrdered(ns)}

\* A host context: the execution plan, its nodes and registrations, what
\* the host's own calls answer, the tensors, and the output list of the
\* node subset.  budget bounds the invocations.
HostContext(pl, st, fails, rg, ns, ts, os, bd) ==
  [plan |-> pl, planStatus |-> st, lookupFails |-> fails, regs |-> rg,
   nodes |-> ns, tensors |-> ts, output_tensors |-> os, budget |-> bd]

\* A tensor-rich host context: every node legal; the nodes ns, the subset's
\* output list outs (some of the tensors it writes) and the kind ks[t] of
\* each tensor varied.
TensorRichHost(ns, outs, ks) ==
  HostContext([i \in 1 .. Len(ns) |-> i - 1], TRUE, {},
              [i \in 0 .. (Len(ns) - 1) |-> IF i % 2 = 0 THEN BuiltinReg ELSE CustomReg],
              ZeroBased(ns), [t \in TensorIds |-> HostTensor(ks[t], t)],
              outs, MaxInvokes)

\* Legality-rich host contexts: the registrations varied, the plan in
\* increasing or decreasing node order, the host's own calls failing or not;
\* every node reads tensor 0 and writes tensor 1.
PlanNode == Node(<<0>>, <<1>>, <<>>, FALSE, TRUE)

PlanTensors ==
  [t \in TensorIds |->
     IF t <= 1 THEN ArenaTensor(t, HostDims(t)) ELSE UnallocatedTensor(t, HostDims(t))]

\* What the host does around one plan: "plain", "reversed" (the plan in
\* decreasing node order), "no_plan" (GetExecutionPlan fails), or
\* "lookup" with the node whose GetNodeAndRegistration fails.
PlanScenarios ==
  [sc : {"plain", "reversed", "no_plan"}, at : {0}]
    \cup [sc : {"lookup"}, at : 0 .. (MaxPlan - 1)]

LegalityRichHost(rs, how) ==
  HostContext(IF how.sc = "reversed"
                THEN SeqReverse([i \in 1 .. Len(rs) |-> i - 1])
                ELSE [i \in 1 .. Len(rs) |-> i - 1],
              how.sc # "no_plan",
              IF how.sc = "lookup" THEN {how.at} ELSE {},
              ZeroBased(rs),
              [i \in 0 .. (Len(rs) - 1) |-> PlanNode], PlanTensors, <<1>>, 1)

\* ------------------------------------------------------------------- state
VARIABLES
  host,             \* the host context (fixed once chosen)
  phase,            \* "start", "rejected", "partitioned", "ready", "aborted"
  replaced,         \* the array handed to the subgraph-replacement call, if any
  call,             \* the last delegate call and what it returned
  op_data,          \* OpData: subgraph_inputs, subgraph_outputs, subgraph_states
  operations_,      \* Delegate::operations_
  compiled_,        \* Delegate::compiled_
  tensors_,         \* Delegate::tensors_, index -> accelerator tensor
  state_tensors_,   \* Delegate::state_tensors_
  vx,               \* the accelerator tensors created so far, by handle
  graph_,           \* the operations lowered into graph_
  layout_infered_,  \* the tensor map of layout inference, handle -> handle
  acc,              \* bytes of the tensors of the compiled graph
  hostData,         \* bytes behind each host tensor's raw pointer
  trace,            \* what the last Invoke did, in order
  atRun,            \* bytes of the graph's tensors when the last run started
  invokes,          \* Invoke calls so far
  shapeIn,          \* CreateTensorSpec harness: the descriptor and permutation
  shapeOut,         \* CreateTensorSpec harness: the spec made of them
  tensorIn,         \* CreateTensor harness: descriptor, bytes, permutation, class
  tensorOut,        \* CreateTensor harness: the accelerator tensor made
  delegate,         \* the function-local static of VxDelegate
  heap,             \* the TfLiteDelegate objects made with new, live or freed
  apiCalls          \* the handle entry points called so far, with results

vars ==
  <<host, phase, replaced, call, op_data, operations_, compiled_, tensors_,
    state_tensors_, vx, graph_, layout_infered_, acc, hostData, trace, atRun,
    invokes, shapeIn, shapeOut, tensorIn, tensorOut, delegate, heap, apiCalls>>

delegateVars ==
  <<op_data, operations_, compiled_, tensors_, state_tensors_, vx, graph_,
    layout_infered_, acc>>

shapeVars == <<shapeIn, shapeOut, tensorIn, tensorOut>>

handleVars == <<delegate, heap, apiCalls>>

\* The static of VxDelegate before its initializer has run, and the one
\* address operator new gives Delegate::Create.
Uninitialized == "uninitialized"
DelegateAddress == "TfLiteDelegate@1"

\* No handle entry point has been called.
HandleIdle ==
  /\ delegate = Uninitialized
  /\ heap = [a \in {DelegateAddress} |-> "unallocated"]
  /\ apiCalls = <<>>

NoCall == [op |-> "none", status |-> "none"]
NoShape == [dims |-> <<>>, perm |-> <<>>]
NoSpec == [res |-> "none", shape |-> <<>>]
NoTensor == [created |-> FALSE]
EmptyTable == [i \in 0 .. NumTensors |-> NullHandle]
EmptyOpData == [subgraph_inputs |-> <<>>, subgraph_outputs |-> <<>>, subgraph_states |-> <<>>]

\* The delegate and the host's memory before any call, given the context.
InitRest ==
  /\ phase = "start"
  /\ replaced = <<>>
  /\ call = NoCall
  /\ op_data = EmptyOpData
  /\ operations_ = <<>>
  /\ compiled_ = FALSE
  /\ tensors_ = <<>>
  /\ state_tensors_ = <<>>
  /\ vx = <<>>
  /\ graph_ = <<>>
  /\ layout_infered_ = <<>>
  /\ acc = <<>>
  /\ hostData = [t \in TensorIds |-> host.tensors[t].init]
  /\ trace = <<>>
  /\ atRun = <<>>
  /\ invokes = 0
  /\ shapeIn = NoShape
  /\ shapeOut = NoSpec
  /\ tensorIn = NoTensor
  /\ tensorOut = NoTensor
  /\ HandleIdle

Init ==
  /\ \E ns \in NodeLists :
       \E os \in (SUBSET ProducedBy(ns)) \ {{}} :
         \E ks \in [TensorIds -> TensorKinds] :
           /\ \A t \in TensorIds : ks[t] \in AllowedKinds(t, ns, SortedSeq(os))
           /\ host = TensorRichHost(ns, SortedSeq(os), ks)
  /\ InitRest

InitLegal ==
  /\ \E rs \in SeqsUpTo(Registrations, MaxPlan), how \in PlanScenarios :
       /\ how.sc = "lookup" => how.at < Len(rs)
       /\ host = LegalityRichHost(rs, how)
  /\ InitRest

\* ---------------------------------------------------------- LegalityFilter
\* PrepareDelegate: nothing is handed to the host when GetExecutionPlan or a
\* GetNodeAndRegistration of the walk fails (TF_LITE_ENSURE_STATUS returns);
\* otherwise the count-prefixed list of the nodes SupportedOp accepts.
PrepareDelegateResult(h) ==
  IF ~h.planStatus \/ \E i \in DOMAIN h.plan : h.plan[i] \in h.lookupFails
    THEN [status |-> "error", handed |-> <<>>]
    ELSE [status |-> "ok", handed |-> CountPrefixed(SupportedNodesOf(h.plan, h.regs))]

PrepareDelegate ==
  /\ phase = "start"
  /\ LET r == PrepareDelegateResult(host)
     IN /\ replaced' = r.handed
        /\ call' = [op |-> "PrepareDelegate", status |-> r.status]
        /\ phase' = IF r.status = "ok" /\ r.handed[1] > 0 THEN "partitioned" ELSE "rejected"
  /\ UNCHANGED <<handleVars, host, delegateVars, hostData, trace, atRun, invokes, shapeVars>>

\* -------------------------------------------------------- SubgraphExtractor
\* params->nodes_to_replace: the accepted nodes, as one subset.
NodesToReplace == Tail(replaced)

\* Delegate::Init keeping every entry of the host's input list.
SubgraphInputsUnfiltered(h, input_tensors) == input_tensors

\* Delegate::Init recording the states of the first node only.
ConcatStatesFirstOnly(ops) == IF ops = <<>> THEN <<>> ELSE Head(ops).states

\* The subgraph inputs of Delegate::Init: the input tensors whose
\* allocation type is not kTfLiteMmapRo, in the host's order.
SubgraphInputs(h, input_tensors) ==
  SeqFilter(input_tensors,
            {t \in TensorIds : h.tensors[t].allocation_type # "kTfLiteMmapRo"})

\* The record Delegate::Init keeps of one node.
OpInfo(h, node_idx) ==
  LET reg == h.regs[node_idx]
      node == h.nodes[node_idx]
  IN [custom_name |-> IF reg.custom_name # NullPtr THEN reg.custom_name ELSE "",
      builtin_code |-> reg.builtin_code,
      inputs |-> node.inputs,
      outputs |-> node.outputs,
      states |-> IF node.statesOk THEN node.states ELSE <<>>,
      builtin_data |-> IF node.has_params THEN <<node_idx>> ELSE <<>>]

RECURSIVE ConcatStates(_)
ConcatStates(ops) ==
  IF ops = <<>> THEN <<>> ELSE Head(ops).states \o ConcatStates(Tail(ops))

\* Delegate::Init.  The catalog entry of a node is fetched with
\* std::map::at, which throws std::out_of_range when the registry chosen
\* for the node does not hold it; nothing catches it.
DelegateInit ==
  /\ phase = "partitioned"
  /\ LET ids == NodesToReplace
         nodes == [i \in 1 .. Len(ids) |-> host.nodes[ids[i]]]
         ops == [i \in 1 .. Len(ids) |-> OpInfo(host, ids[i])]
     IN IF \E i \in 1 .. Len(ids) : ~InitFindsEntry(host.regs[ids[i]])
          THEN /\ phase' = "aborted"
               /\ call' = [op |-> "Init", status |-> "out_of_range"]
               /\ UNCHANGED delegateVars
          ELSE /\ phase' = "ready"
               /\ call' = [op |-> "Init", status |-> "ok"]
               /\ compiled_' = FALSE
               /\ tensors_' = EmptyTable
               /\ state_tensors_' = EmptyTable
               /\ op_data' =
                    [subgraph_inputs |-> SubgraphInputs(host, HostInputTensors(nodes)),
                     subgraph_outputs |-> host.output_tensors,
                     subgraph_states |-> ConcatStates(ops)]
               /\ operations_' = ops
               /\ UNCHANGED <<vx, graph_, layout_infered_, acc>>
  /\ UNCHANGED <<handleVars, host, replaced, hostData, trace, atRun, invokes, shapeVars>>

\* Delegate::Prepare: logs and returns kTfLiteOk.
Prepare ==
  /\ phase = "ready"
  /\ call' = [op |-> "Prepare", status |-> "kTfLiteOk"]
  /\ UNCHANGED <<handleVars, host, phase, replaced, delegateVars, hostData, trace, atRun, invokes,
                 shapeVars>>

\* ------------------------------------------------------------ GraphBuilder
\* One Invoke is a fold over a record s: the delegate's fields, the host
\* bytes, the events so far (ev), and st: "run" while the call goes on,
\* "fatal" once the process is ended, "error" once it returned
\* kTfLiteDelegateError.
Ev(e, tbl, idx, h, x) == [e |-> e, tbl |-> tbl, idx |-> idx, h |-> h, x |-> x]

\* A FATAL log line that only logs.
LogFatalOnlyLogs(s, what) ==
  [s EXCEPT !.ev = Append(@, Ev("fatal", what, 0, 0, NullData))]

\* TFLITE_LOG(FATAL): the message is written and the process ends.
LogFatal(s, what) ==
  [s EXCEPT !.ev = Append(@, Ev("fatal", what, 0, 0, NullData)), !.st = "fatal"]

\* A creation that does not look at the table first.
NeedsTensorAlways(table, tensor_idx) == OptionalTensor # tensor_idx

\* The guard of every creation: the index is not the optional one and the
\* table has no tensor for it yet.
NeedsTensor(table, tensor_idx) ==
  OptionalTensor # tensor_idx /\ table[tensor_idx] = NullHandle

\* graph_->CreateTensor through CreateTensor, stored in tensors_ or
\* state_tensors_ at tensor_idx.
AddTensor(s, tbl, tensor_idx, attr) ==
  LET made == [tensor |-> CreateTensor(host.tensors[tensor_idx], s.host[tensor_idx],
                                       attr, <<>>),
               idx |-> tensor_idx, tbl |-> tbl]
      h == Len(s.vx) + 1
  IN IF tbl = "tensors_"
       THEN [s EXCEPT !.vx = Append(@, made), !.tensors[tensor_idx] = h,
                      !.ev = Append(@, Ev("create", tbl, tensor_idx, h, NullData))]
       ELSE [s EXCEPT !.vx = Append(@, made), !.state_tensors[tensor_idx] = h,
                      !.ev = Append(@, Ev("create", tbl, tensor_idx, h, NullData))]

\* tensors_[size - 1] = graph_->CreateTensorPlaceHolder().
AddPlaceHolder(s) ==
  LET made == [tensor |-> [attr |-> "PLACEHOLDER", shape |-> <<>>, data |-> NullData],
               idx |-> NumTensors, tbl |-> "tensors_"]
      h == Len(s.vx) + 1
  IN [s EXCEPT !.vx = Append(@, made), !.tensors[NumTensors] = h,
               !.ev = Append(@, Ev("placeholder", "tensors_", NumTensors, h, NullData))]

\* The loops over op_data.subgraph_inputs and op_data.subgraph_outputs.
RECURSIVE CreateBoundary(_, _, _)
CreateBoundary(s, idxs, attr) ==
  IF idxs = <<>> THEN s
  ELSE CreateBoundary(IF NeedsTensor(s.tensors, Head(idxs))
                        THEN AddTensor(s, "tensors_", Head(idxs), attr)
                        ELSE s,
                      Tail(idxs), attr)

\* A classification that never finds a constant.
PortAttrNeverConstant(tensor, data) ==
  IF IsVariableTensor(tensor) THEN "VARIABLE" ELSE "TRANSIENT"

\* The storage class of a tensor first met as a node's operand.
PortAttr(tensor, data) ==
  IF IsConstTensor(data) THEN "CONSTANT"
  ELSE IF IsVariableTensor(tensor) THEN "VARIABLE"
  ELSE "TRANSIENT"

\* The loop over a node's inputs and outputs.
RECURSIVE CreatePorts(_, _)
CreatePorts(s, inputs_outputs) ==
  IF inputs_outputs = <<>> THEN s
  ELSE LET tensor_idx == Head(inputs_outputs)
       IN CreatePorts(IF NeedsTensor(s.tensors, tensor_idx)
                        THEN AddTensor(s, "tensors_", tensor_idx,
                                       PortAttr(host.tensors[tensor_idx], s.host[tensor_idx]))
                        ELSE s,
                      Tail(inputs_outputs))

\* A build that makes no state tensors.
CreateStatesNever(s, states) == s

\* The loop over a node's states: the new-state side is an OUTPUT tensor.
RECURSIVE CreateStates(_, _)
CreateStates(s, states) ==
  IF states = <<>> THEN s
  ELSE CreateStates(IF NeedsTensor(s.state_tensors, Head(states))
                      THEN AddTensor(s, "state_tensors_", Head(states), "OUTPUT")
                      ELSE s,
                    Tail(states))

\* MapOp of the node's catalog entry: the operation appended to graph_,
\* with the handles it was given.
MapOp(s, i, op_info) ==
  LET lowered == [op |-> i,
                  inputs |-> MapIndexesToTensors(s.tensors, op_info.inputs),
                  outputs |-> MapIndexesToTensors(s.tensors, op_info.outputs),
                  states |-> MapIndexesToTensors(s.state_tensors, op_info.states),
                  params |-> op_info.builtin_data]
  IN [s EXCEPT !.graph = Append(@, lowered),
               !.ev = Append(@, Ev("lower", "graph_", i, 0, NullData))]

\* A loop that lowers each node before it creates the node's tensors.
RECURSIVE CreateOpsLowerFirst(_, _)
CreateOpsLowerFirst(s, i) ==
  IF i > Len(operations_) THEN s
  ELSE LET op_info == operations_[i]
           lowered == MapOp(s, i, op_info)
           withPorts == CreatePorts(lowered, op_info.inputs \o op_info.outputs)
       IN CreateOpsLowerFirst(CreateStates(withPorts, op_info.states), i + 1)

\* The "create op" loop over operations_, from position i on.
RECURSIVE CreateOps(_, _)
CreateOps(s, i) ==
  IF i > Len(operations_) THEN s
  ELSE LET op_info == operations_[i]
           withPorts == CreatePorts(s, op_info.inputs \o op_info.outputs)
           withStates == CreateStates(withPorts, op_info.states)
       IN CreateOps(MapOp(withStates, i, op_info), i + 1)

\* tim::transform::LayoutInference: a new graph and the map from every
\* tensor of graph_ to its counterpart, which holds a constant's bytes.
LayoutInference(s) ==
  LET n == Len(s.vx)
  IN [s EXCEPT !.map = [h \in 1 .. n |-> n + h],
               !.acc = [h \in (n + 1) .. (2 * n) |-> s.vx[h - n].tensor.data],
               !.ev = Append(@, Ev("layout", "graph_", 0, 0, NullData))]

\* A compile failure that is only returned to the host as an error.
CompileReturnsError(s, compileOk) ==
  LET done == [s EXCEPT !.compiled = compileOk,
                        !.ev = Append(@, Ev("compile", "graph_", 0, 0,
                                            Token("compiled", IF compileOk THEN 1 ELSE 0, 0)))]
  IN IF compileOk THEN done ELSE [done EXCEPT !.st = "error"]

\* Compile() of the inferred graph, and what follows a failure.
Compile(s, compileOk) ==
  LET done == [s EXCEPT !.compiled = compileOk,
                        !.ev = Append(@, Ev("compile", "graph_", 0, 0,
                                            Token("compiled", IF compileOk THEN 1 ELSE 0, 0)))]
  IN IF compileOk THEN done
     ELSE LET logged == LogFatal(done, "Failed to verify graph")
          IN IF logged.st = "run" THEN [logged EXCEPT !.st = "error"] ELSE logged

\* The build that does not look at compiled_.
BuildGraphAlways(s, compileOk) ==
  Compile(LayoutInference(CreateOps(
    CreateBoundary(CreateBoundary(AddPlaceHolder([s EXCEPT !.graph = <<>>]),
                                  op_data.subgraph_inputs, "INPUT"),
                   op_data.subgraph_outputs, "OUTPUT"), 1)), compileOk)

\* The body of "if (!compiled_)": a new graph, the placeholder, the tensors
\* of the subgraph's inputs and outputs, every node lowered, layout
\* inference, compile.
BuildGraph(s, compileOk) ==
  IF s.compiled THEN s
  ELSE Compile(LayoutInference(CreateOps(
         CreateBoundary(CreateBoundary(AddPlaceHolder([s EXCEPT !.graph = <<>>]),
                                       op_data.subgraph_inputs, "INPUT"),
                        op_data.subgraph_outputs, "OUTPUT"), 1)), compileOk)

\* --------------------------------------------------------- ExecutionDriver
\* An input loop that copies from the graph's tensor into host memory.
RECURSIVE CopyInputsToHost(_, _)
CopyInputsToHost(s, idxs) ==
  IF idxs = <<>> \/ s.st # "run" THEN s
  ELSE LET tensor_idx == Head(idxs)
           src_input_tensor == s.tensors[tensor_idx]
       IN IF src_input_tensor = NullHandle
            THEN CopyInputsToHost(LogFatal(s, "Failed to copy input tensor!"), Tail(idxs))
            ELSE LET infered == s.map[src_input_tensor]
                 IN CopyInputsToHost(
                      [s EXCEPT !.host[tensor_idx] = Token("graph", 0, infered),
                                !.ev = Append(@, Ev("copy_in", "tensors_", tensor_idx,
                                                    infered, s.host[tensor_idx]))],
                      Tail(idxs))

\* The loop copying host bytes into the graph's input tensors.
RECURSIVE CopyInputs(_, _)
CopyInputs(s, idxs) ==
  IF idxs = <<>> \/ s.st # "run" THEN s
  ELSE LET tensor_idx == Head(idxs)
           src_input_tensor == s.tensors[tensor_idx]
       IN IF src_input_tensor = NullHandle
            THEN CopyInputs(LogFatal(s, "Failed to copy input tensor!"), Tail(idxs))
            ELSE LET infered == s.map[src_input_tensor]
                 IN CopyInputs(
                      [s EXCEPT !.acc[infered] = s.host[tensor_idx],
                                !.ev = Append(@, Ev("copy_in", "tensors_", tensor_idx,
                                                    infered, s.host[tensor_idx]))],
                      Tail(idxs))

\* Storage classes whose bytes a run of the graph produces.
WrittenByRun == {"OUTPUT", "TRANSIENT", "VARIABLE"}

\* layout_infered_.first->Run(): every tensor the graph computes holds the
\* bytes of this run; a failed run is logged FATAL.
RunGraph(s, runOk, k) ==
  IF s.st # "run" THEN s
  ELSE IF ~runOk
    THEN LogFatal([s EXCEPT !.snap = s.acc,
                            !.ev = Append(@, Ev("run", "graph_", 0, 0, Token("failed", k, 0)))],
                  "Failed to run graph")
    ELSE [s EXCEPT !.snap = s.acc,
                   !.acc = [h \in DOMAIN s.acc |->
                              IF s.vx[h - Len(s.vx)].tensor.attr \in WrittenByRun
                                THEN Token("run", k, h) ELSE s.acc[h]],
                   !.ev = Append(@, Ev("run", "graph_", 0, 0, Token("ran", k, 0)))]

\* Copy loops that let go of the delegate's tensor once its bytes are out.
RECURSIVE CopyBackReleasing(_, _, _)
CopyBackReleasing(s, idxs, what) ==
  IF idxs = <<>> \/ s.st # "run" THEN s
  ELSE LET tensor_idx == Head(idxs)
           src == IF what = "copy_out" THEN s.tensors[tensor_idx]
                  ELSE s.state_tensors[tensor_idx]
       IN IF src = NullHandle
            THEN CopyBackReleasing(LogFatal(s, "Failed to copy output tensor!"),
                                   Tail(idxs), what)
            ELSE CopyBackReleasing(
                   [s EXCEPT !.host[tensor_idx] = s.acc[s.map[src]],
                             !.tensors[tensor_idx] =
                               IF what = "copy_out" THEN NullHandle ELSE @,
                             !.state_tensors[tensor_idx] =
                               IF what = "copy_out" THEN @ ELSE NullHandle,
                             !.ev = Append(@, Ev(what, "tensors_", tensor_idx, s.map[src],
                                                 s.acc[s.map[src]]))],
                   Tail(idxs), what)

\* The loops copying the graph's bytes into host memory: the outputs from
\* tensors_, the states from state_tensors_.
RECURSIVE CopyBack(_, _, _)
CopyBack(s, idxs, what) ==
  IF idxs = <<>> \/ s.st # "run" THEN s
  ELSE LET tensor_idx == Head(idxs)
           src == IF what = "copy_out" THEN s.tensors[tensor_idx]
                  ELSE s.state_tensors[tensor_idx]
       IN IF src = NullHandle
            THEN CopyBack(LogFatal(s, IF what = "copy_out"
                                        THEN "Failed to copy output tensor!"
                                        ELSE "Disaster!"),
                          Tail(idxs), what)
            ELSE LET infered == s.map[src]
                 IN CopyBack(
                      [s EXCEPT !.host[tensor_idx] = s.acc[infered],
                                !.ev = Append(@, Ev(what,
                                                    IF what = "copy_out" THEN "tensors_"
                                                    ELSE "state_tensors_",
                                                    tensor_idx, infered, s.acc[infered]))],
                      Tail(idxs), what)

\* Delegate::Invoke with the run before the input copy.
InvokeRunsFirst(s, compileOk, runOk, k) ==
  CopyBack(CopyBack(CopyInputs(RunGraph(BuildGraph(s, compileOk), runOk, k),
                               op_data.subgraph_inputs),
                    op_data.subgraph_outputs, "copy_out"),
           op_data.subgraph_states, "copy_state")

\* Delegate::Invoke without the state copy.
InvokeNoStateCopy(s, compileOk, runOk, k) ==
  CopyBack(RunGraph(CopyInputs(BuildGraph(s, compileOk), op_data.subgraph_inputs),
                    runOk, k),
           op_data.subgraph_outputs, "copy_out")

\* Delegate::Invoke, call number k: build if not compiled, copy the inputs
\* in, run, copy the outputs out, copy the states out.
InvokeSteps(s, compileOk, runOk, k) ==
  CopyBack(CopyBack(RunGraph(CopyInputs(BuildGraph(s, compileOk),
                                        op_data.subgraph_inputs),
                             runOk, k),
                    op_data.subgraph_outputs, "copy_out"),
           op_data.subgraph_states, "copy_state")

Invoke ==
  /\ phase = "ready"
  /\ invokes < host.budget
  /\ \E compileOk \in BOOLEAN, runOk \in BOOLEAN :
       LET k == invokes + 1
           s0 == [compiled |-> compiled_, tensors |-> tensors_,
                  state_tensors |-> state_tensors_, vx |-> vx, graph |-> graph_,
                  map |-> layout_infered_, acc |-> acc, host |-> hostData,
                  snap |-> <<>>, ev |-> <<>>, st |-> "run"]
       IN \E s \in {InvokeSteps(s0, compileOk, runOk, k)} :
          /\ compiled_' = s.compiled
          /\ tensors_' = s.tensors
          /\ state_tensors_' = s.state_tensors
          /\ vx' = s.vx
          /\ graph_' = s.graph
          /\ layout_infered_' = s.map
          /\ acc' = s.acc
          /\ hostData' = s.host
          /\ trace' = s.ev
          /\ atRun' = s.snap
          /\ invokes' = k
          /\ phase' = IF s.st = "fatal" THEN "aborted" ELSE "ready"
          /\ call' = [op |-> "Invoke",
                      status |-> IF s.st = "fatal" THEN "aborted"
                                 ELSE IF s.st = "error" THEN "kTfLiteDelegateError"
                                 ELSE "kTfLiteOk"]
  /\ UNCHANGED <<handleVars, host, replaced, op_data, operations_, shapeVars>>

\* The host fills the tensors it feeds the subgraph between two invocations:
\* the subgraph inputs that are not persistent (variable) tensors.
HostFed == {t \in SeqRange(op_data.subgraph_inputs) : ~host.tensors[t].is_variable}

HostWrite ==
  /\ phase = "ready"
  /\ invokes < host.budget
  /\ HostFed # {}
  /\ hostData' = [t \in TensorIds |->
                    IF t \in HostFed THEN Token("host", invokes + 1, t) ELSE hostData[t]]
  /\ hostData' # hostData
  /\ call' = [op |-> "HostWrite", status |-> "none"]
  /\ UNCHANGED <<handleVars, host, phase, replaced, delegateVars, trace, atRun, invokes, shapeVars>>

Next == PrepareDelegate \/ DelegateInit \/ Prepare \/ Invoke \/ HostWrite

Spec == Init /\ [][Next]_vars

SpecLegal == InitLegal /\ [][Next]_vars

\* ------------------------------------------------- CreateTensorSpec alone
\* Host dimension sizes, pairwise distinct so that an axis is recognised
\* by its size.
DimSizes == {2, 3, 5, 7}

HostShapes == SeqsUpTo(DimSizes, MaxRank)

\* The permutations of 0 .. n-1, as vectors, for n up to MaxRank.
Perms ==
  UNION {{p \in [1 .. n -> 0 .. (n - 1)] : \A i, j \in 1 .. n : p[i] = p[j] => i = j} :
           n \in 0 .. MaxRank}

NoHost == HostContext(<<>>, TRUE, {}, <<>>, <<>>, PlanTensors, <<>>, 0)

InitShape ==
  /\ shapeIn \in [dims : HostShapes, perm : Perms]
  /\ shapeOut = NoSpec
  /\ tensorIn = NoTensor
  /\ tensorOut = NoTensor
  /\ host = NoHost
  /\ phase = "shape"
  /\ replaced = <<>>
  /\ call = NoCall
  /\ op_data = EmptyOpData
  /\ operations_ = <<>>
  /\ compiled_ = FALSE
  /\ tensors_ = <<>>
  /\ state_tensors_ = <<>>
  /\ vx = <<>>
  /\ graph_ = <<>>
  /\ layout_infered_ = <<>>
  /\ acc = <<>>
  /\ hostData = <<>>
  /\ trace = <<>>
  /\ atRun = <<>>
  /\ invokes = 0
  /\ HandleIdle

\* One call of CreateTensorSpec.  A failed assert aborts a debug build and
\* is not there in a release build; an access outside a vector crashes or
\* leaves whcn_shape at the size it was made with.
ApplyCreateTensorSpec ==
  /\ phase = "shape"
  /\ shapeOut = NoSpec
  /\ \E ndebug \in BOOLEAN :
       \E made \in {CreateTensorSpec(ArenaTensor(0, shapeIn.dims), shapeIn.perm,
                                         "TRANSIENT").shape} :
         \E r \in {IF made.res = "assert" /\ ndebug
                     THEN WhcnShapeNoAssert(shapeIn.dims, shapeIn.perm) ELSE made} :
           IF r.res = "ub"
             THEN shapeOut' \in {[res |-> "crash", shape |-> <<>>],
                                 [res |-> "ok",
                                  shape |-> [i \in 1 .. Len(shapeIn.dims) |-> 0]]}
             ELSE shapeOut' = r
  /\ UNCHANGED <<handleVars, host, phase, replaced, call, delegateVars, hostData, trace, atRun, invokes,
                 shapeIn, tensorIn, tensorOut>>

NextShape == ApplyCreateTensorSpec

SpecShape == InitShape /\ [][NextShape]_vars

\* ----------------------------------------------------- CreateTensor alone
TensorTypes == {"kTfLiteFloat32", "kTfLiteInt16", "kTfLiteInt8", "kTfLiteInt64"}

TensorAttributes == {"INPUT", "OUTPUT", "CONSTANT", "VARIABLE", "TRANSIENT"}

\* Quantization metadata of a descriptor of rank r: none, one scale, or two
\* scales along one of its axes.
Quantizations(r) ==
  {NoQuantization, AffineQuantization(1, 0)}
    \cup {AffineQuantization(2, q) : q \in 0 .. (r - 1)}

\* A descriptor of rank r with pairwise distinct sizes, and the bytes its
\* raw pointer shows.
Descriptor(r, type, quantization, data) ==
  [dims |-> HostDims(r), type |-> type, quantization |-> quantization,
   allocation_type |-> "kTfLiteMmapRo", is_variable |-> FALSE, init |-> data]

InitTensor ==
  /\ \E r \in 0 .. MaxRank :
       \E type \in TensorTypes, quantization \in Quantizations(r),
          data \in {NullData, Token("model", 0, 0)}, attr \in TensorAttributes,
          perm \in {p \in Perms : Len(p) \in {0, r}} :
         tensorIn = [tensor |-> Descriptor(r, type, quantization, data),
                     data |-> data, perm |-> perm, attr |-> attr]
  /\ tensorOut = NoTensor
  /\ shapeIn = NoShape
  /\ shapeOut = NoSpec
  /\ host = NoHost
  /\ phase = "tensor"
  /\ replaced = <<>>
  /\ call = NoCall
  /\ op_data = EmptyOpData
  /\ operations_ = <<>>
  /\ compiled_ = FALSE
  /\ tensors_ = <<>>
  /\ state_tensors_ = <<>>
  /\ vx = <<>>
  /\ graph_ = <<>>
  /\ layout_infered_ = <<>>
  /\ acc = <<>>
  /\ hostData = <<>>
  /\ trace = <<>>
  /\ atRun = <<>>
  /\ invokes = 0
  /\ HandleIdle

\* One call of CreateTensor.
ApplyCreateTensor ==
  /\ phase = "tensor"
  /\ tensorOut = NoTensor
  /\ tensorOut' = CreateTensor(tensorIn.tensor, tensorIn.data, tensorIn.attr, tensorIn.perm)
  /\ UNCHANGED <<handleVars, host, phase, replaced, call, delegateVars, hostData, trace, atRun, invokes,
                 shapeIn, shapeOut, tensorIn>>

NextTensor == ApplyCreateTensor

SpecTensor == InitTensor /\ [][NextTensor]_vars

\* ------------------------------------------------ the delegate handle alone
\* Delegate::Create: a TfLiteDelegate made with new.
DelegateCreate(h) ==
  [heap |-> [h EXCEPT ![DelegateAddress] = "live"], result |-> DelegateAddress]

\* VxDelegate: the static is initialized by Delegate::Create on the first
\* call and returned as it is on every call.
VxDelegate(d, h) ==
  IF d = Uninitialized
    THEN [delegate |-> DelegateCreate(h).result, heap |-> DelegateCreate(h).heap,
          result |-> DelegateCreate(h).result]
    ELSE [delegate |-> d, heap |-> h, result |-> d]

\* VxDelegateCreate returns what VxDelegate returns.
VxDelegateCreate(d, h) == VxDelegate(d, h)

\* The heaps VxDelegateDelete can leave behind.  A null pointer returns at
\* once.  delete frees a live object; delete of an object already freed is
\* undefined: the allocator aborts, goes on unharmed, or goes on corrupted.
\* The assignment of nullptr writes the parameter, never the static.
VxDelegateDelete(h, ptr) ==
  IF ptr = NullPtr THEN {[heap |-> h, outcome |-> "returned"]}
  ELSE IF h[ptr] = "live"
    THEN {[heap |-> [h EXCEPT ![ptr] = "freed"], outcome |-> "returned"]}
    ELSE {[heap |-> h, outcome |-> "abort"],
          [heap |-> h, outcome |-> "returned"],
          [heap |-> [h EXCEPT ![ptr] = "corrupt"], outcome |-> "returned"]}

\* The handles a client can pass to VxDelegateDelete: those it was given.
Given == {apiCalls[i].result : i \in DOMAIN apiCalls} \ {NullPtr}

ApiCall(op, arg, result, live) ==
  [op |-> op, arg |-> arg, result |-> result, live |-> live]

InitHandle ==
  /\ HandleIdle
  /\ shapeIn = NoShape
  /\ shapeOut = NoSpec
  /\ tensorIn = NoTensor
  /\ tensorOut = NoTensor
  /\ host = NoHost
  /\ phase = "handle"
  /\ replaced = <<>>
  /\ call = NoCall
  /\ op_data = EmptyOpData
  /\ operations_ = <<>>
  /\ compiled_ = FALSE
  /\ tensors_ = <<>>
  /\ state_tensors_ = <<>>
  /\ vx = <<>>
  /\ graph_ = <<>>
  /\ layout_infered_ = <<>>
  /\ acc = <<>>
  /\ hostData = <<>>
  /\ trace = <<>>
  /\ atRun = <<>>
  /\ invokes = 0

handleRest ==
  <<host, replaced, call, delegateVars, hostData, trace, atRun, invokes, shapeVars>>

CallVxDelegate ==
  /\ phase = "handle" /\ Len(apiCalls) < MaxCalls
  /\ \E r \in {VxDelegate(delegate, heap)} :
       /\ delegate' = r.delegate
       /\ heap' = r.heap
       /\ apiCalls' = Append(apiCalls, ApiCall("VxDelegate", NullPtr, r.result,
                                               r.heap[r.result] = "live"))
  /\ UNCHANGED <<phase, handleRest>>

CallVxDelegateCreate ==
  /\ phase = "handle" /\ Len(apiCalls) < MaxCalls
  /\ \E r \in {VxDelegateCreate(delegate, heap)} :
       /\ delegate' = r.delegate
       /\ heap' = r.heap
       /\ apiCalls' = Append(apiCalls, ApiCall("VxDelegateCreate", NullPtr, r.result,
                                               r.heap[r.result] = "live"))
  /\ UNCHANGED <<phase, handleRest>>

CallVxDelegateDelete ==
  /\ phase = "handle" /\ Len(apiCalls) < MaxCalls
  /\ \E ptr \in Given \cup {NullPtr} :
       \E r \in VxDelegateDelete(heap, ptr) :
         /\ heap' = r.heap
         /\ phase' = IF r.outcome = "abort" THEN "aborted" ELSE phase
         /\ apiCalls' = Append(apiCalls, ApiCall("VxDelegateDelete", ptr, NullPtr,
                                                 ptr # NullPtr /\ heap[ptr] = "live"))
  /\ UNCHANGED <<delegate, handleRest>>

NextHandle == CallVxDelegate \/ CallVxDelegateCreate \/ CallVxDelegateDelete

SpecHandle == InitHandle /\ [][NextHandle]_vars

\* ================================================================ properties
\* Positions of the events of one kind in a trace of Invoke.
EvPos(tr, kind) == {i \in DOMAIN tr : tr[i].e = kind}

BuildEvents == {"placeholder", "create", "lower", "layout", "compile"}

Built(tr) == \E i \in DOMAIN tr : tr[i].e \in BuildEvents

FailedCompile(tr) ==
  \E i \in EvPos(tr, "compile") : tr[i].x = Token("compiled", 0, 0)

FailedRun(tr) == \E i \in EvPos(tr, "run") : tr[i].x.src = "failed"

Inputs == SeqRange(op_data.subgraph_inputs)
Outputs == SeqRange(op_data.subgraph_outputs)
States == SeqRange(op_data.subgraph_states)

\* C1: the graph build is never performed by Prepare; the first Invoke
\* performs it (tensors are created and the graph is compiled); and once
\* compiled_ is true a later Invoke creates no tensor, lowers no node and
\* does not compile again.
C1_LazySingleBuild ==
  [][/\ call'.op = "Prepare" =>
          /\ vx' = vx /\ graph_' = graph_ /\ tensors_' = tensors_
          /\ state_tensors_' = state_tensors_ /\ compiled_' = compiled_
          /\ layout_infered_' = layout_infered_ /\ trace' = trace
     /\ (invokes = 0 /\ invokes' = 1) =>
          /\ EvPos(trace', "compile") # {}
          /\ EvPos(trace', "lower") # {}
          /\ Len(vx') > Len(vx)
     /\ (invokes' # invokes /\ compiled_) =>
          /\ ~Built(trace')
          /\ vx' = vx /\ graph_' = graph_ /\ tensors_' = tensors_
          /\ state_tensors_' = state_tensors_ /\ layout_infered_' = layout_infered_
          /\ compiled_']_vars

C1_Witness ==
  /\ invokes >= 2 /\ compiled_
  /\ call = [op |-> "Invoke", status |-> "kTfLiteOk"]
  /\ EvPos(trace, "run") # {} /\ ~Built(trace)

\* Position of node n in the execution plan.
PlanPos(plan, n) == CHOOSE i \in DOMAIN plan : plan[i] = n

\* C2: the array handed to the replacement call starts with the number of
\* accepted nodes, followed by exactly the node ids SupportedOp accepted,
\* each once, in the order of the execution plan.
C2_CountPrefixedAccepted ==
  replaced # <<>> =>
    LET accepted == Tail(replaced)
        legal == {n \in SeqRange(host.plan) : SupportedOp(host.regs[n])}
    IN /\ replaced[1] = Cardinality(legal)
       /\ Len(accepted) = Cardinality(legal)
       /\ SeqRange(accepted) = legal
       /\ \A i, j \in DOMAIN accepted :
            i < j => PlanPos(host.plan, accepted[i]) < PlanPos(host.plan, accepted[j])

C2_Witness ==
  /\ Len(host.plan) >= 3 /\ host.plan[1] > host.plan[2]
  /\ Len(replaced) = 3 /\ replaced[1] = 2
  /\ \E n \in SeqRange(host.plan) : n \notin SeqRange(Tail(replaced))

\* C3: in an Invoke that reaches the run, every subgraph input is copied
\* in before the run, the run comes before every output copy, and every
\* output copy comes before every state copy.
C3_InvokeOrder ==
  \A r \in EvPos(trace, "run") :
    /\ {trace[i].idx : i \in EvPos(trace, "copy_in")} = Inputs
    /\ \A i \in EvPos(trace, "copy_in") : i < r
    /\ \A o \in EvPos(trace, "copy_out") : r < o
    /\ \A c \in EvPos(trace, "copy_state") : r < c
    /\ \A o \in EvPos(trace, "copy_out"), c \in EvPos(trace, "copy_state") : o < c

C3_Witness ==
  /\ EvPos(trace, "copy_in") # {} /\ EvPos(trace, "run") # {}
  /\ EvPos(trace, "copy_out") # {} /\ EvPos(trace, "copy_state") # {}

\* The bytes state_tensors_[s] holds after the run of invocation k.
StateHeld(s, k) == Token("run", k, layout_infered_[state_tensors_[s]])

\* Invocation number `invokes` returned kTfLiteOk.
Returned == phase = "ready" /\ invokes >= 1 /\ compiled_

C5_InputsUntouched ==
  [][invokes' # invokes => \A i \in Inputs : hostData'[i] = hostData[i]]_vars

\* C5, amended: an Invoke changes host bytes only at subgraph output
\* indices and state indices, so every subgraph input index that is
\* neither holds the same bytes after the Invoke as before it.
C5_InvokeWritesOnlyOutputsAndStates ==
  [][invokes' # invokes =>
       \A t \in TensorIds \ (Outputs \cup States) : hostData'[t] = hostData[t]]_vars

C5_Witness ==
  /\ call = [op |-> "Invoke", status |-> "kTfLiteOk"]
  /\ \E i \in EvPos(trace, "copy_in") :
       /\ trace[i].idx \notin Outputs \cup States
       /\ hostData[trace[i].idx] = trace[i].x

\* C6: when the compile of the first Invoke fails, a FATAL line is logged,
\* that Invoke copies nothing, runs nothing, changes no host bytes and does
\* not return kTfLiteOk; and no later Invoke builds or compiles again.
C6_CompileFailureIsFinal ==
  [][/\ (invokes' # invokes /\ FailedCompile(trace')) =>
          /\ EvPos(trace', "fatal") # {}
          /\ EvPos(trace', "copy_in") \cup EvPos(trace', "run")
               \cup EvPos(trace', "copy_out") \cup EvPos(trace', "copy_state") = {}
          /\ hostData' = hostData
          /\ call'.status # "kTfLiteOk"
     /\ FailedCompile(trace) =>
          /\ invokes' = invokes
          /\ vx' = vx /\ graph_' = graph_ /\ compiled_' = compiled_]_vars

C6_Witness ==
  /\ call.op = "Invoke" /\ phase = "aborted"
  /\ FailedCompile(trace) /\ ~compiled_ /\ Len(graph_) >= 1

\* C7: when the run of an Invoke fails, a FATAL line is logged, no output
\* and no state bytes are copied into host memory, and the Invoke does not
\* return kTfLiteOk.
C7_RunFailureAborts ==
  [][(invokes' # invokes /\ FailedRun(trace')) =>
       /\ EvPos(trace', "fatal") # {}
       /\ EvPos(trace', "copy_out") \cup EvPos(trace', "copy_state") = {}
       /\ hostData' = hostData
       /\ call'.status # "kTfLiteOk"]_vars

C7_Witness ==
  /\ call.op = "Invoke" /\ phase = "aborted"
  /\ FailedRun(trace) /\ compiled_
  /\ Outputs # {} /\ States # {}

\* C8 as stated: for every node SupportedOp accepted, whatever its custom
\* name and builtin code, Delegate::Init finds the node's catalog entry:
\* Init never ends with the registry's absent-key error.
C8_InitResolvesEveryAcceptedNode ==
  call.op = "Init" => call.status = "ok"

\* C9: every tensor index is created at most once in tensors_ and at most
\* once in state_tensors_, the table holds that one tensor, and every
\* lowered operation refers to an index by the tensor the table holds.
C9_CreatedOnce ==
  /\ \A h1, h2 \in DOMAIN vx :
       (vx[h1].idx = vx[h2].idx /\ vx[h1].tbl = vx[h2].tbl) => h1 = h2
  /\ \A h \in DOMAIN vx :
       IF vx[h].tbl = "tensors_" THEN tensors_[vx[h].idx] = h
       ELSE state_tensors_[vx[h].idx] = h
  /\ \A g \in DOMAIN graph_ :
       LET info == operations_[graph_[g].op]
       IN /\ \A j \in DOMAIN info.inputs :
               info.inputs[j] # OptionalTensor =>
                 graph_[g].inputs[j] = tensors_[info.inputs[j]]
          /\ \A j \in DOMAIN info.outputs :
               info.outputs[j] # OptionalTensor =>
                 graph_[g].outputs[j] = tensors_[info.outputs[j]]
          /\ \A j \in DOMAIN info.states :
               graph_[g].states[j] = state_tensors_[info.states[j]]

C9_Witness ==
  /\ compiled_ /\ Len(graph_) = 2
  /\ \E t \in TensorIds :
       /\ t \in SeqRange(operations_[1].outputs)
       /\ t \in SeqRange(operations_[2].inputs)
       /\ t \in Outputs
       /\ graph_[1].outputs[1] = tensors_[t]
  /\ \E t \in Inputs : t \in SeqRange(operations_[1].inputs)
  /\ States # {}

\* C10: for a host shape d of rank r >= 1, the accelerator shape has
\* element i equal to d[r-1-i] without a permutation and to d[p[r-1-i]]
\* with a permutation p of length r: the gather by p comes first and the
\* reversal second.
C10_GatherThenReverse ==
  LET d == shapeIn.dims
      p == shapeIn.perm
      r == Len(d)
  IN (shapeOut.res = "ok" /\ r >= 1 /\ Len(p) \in {0, r}) =>
       /\ Len(shapeOut.shape) = r
       /\ \A i \in 0 .. (r - 1) :
            shapeOut.shape[i + 1] =
              IF p = <<>> THEN d[(r - 1 - i) + 1] ELSE d[p[(r - 1 - i) + 1] + 1]

C10_Witness ==
  /\ shapeOut.res = "ok"
  /\ shapeIn = [dims |-> <<2, 3, 5>>, perm |-> <<1, 2, 0>>]
  /\ shapeOut.shape = <<2, 5, 3>>

\* The sizes of a shape are pairwise distinct.
Distinct(d) == \A i, j \in DOMAIN d : d[i] = d[j] => i = j

\* C11 as stated: a host shape [N,H,W,C] of pairwise distinct sizes with
\* permutation [0,3,1,2] gives the accelerator shape [H,W,C,N].
C11_NhwcGivesHwcn ==
  LET d == shapeIn.dims
  IN (shapeOut.res = "ok" /\ Len(d) = 4 /\ Distinct(d) /\ shapeIn.perm = <<0, 3, 1, 2>>) =>
       shapeOut.shape = <<d[2], d[3], d[4], d[1]>>

\* C11, amended: a host shape [N,H,W,C] of pairwise distinct sizes with
\* permutation [0,3,1,2] gives the accelerator shape [W,H,C,N]: the gather
\* gives [N,C,H,W] and the reversal [W,H,C,N].
C11_NhwcGivesWhcn ==
  LET d == shapeIn.dims
  IN (shapeOut.res = "ok" /\ Len(d) = 4 /\ Distinct(d) /\ shapeIn.perm = <<0, 3, 1, 2>>) =>
       shapeOut.shape = <<d[3], d[2], d[4], d[1]>>

C11_Witness ==
  /\ shapeIn = [dims |-> <<2, 3, 5, 7>>, perm |-> <<0, 3, 1, 2>>]
  /\ shapeOut = [res |-> "ok", shape |-> <<5, 3, 7, 2>>]

C13_ChannelAxisFollowsShape ==
  LET t == tensorIn.tensor
  IN (tensorOut.created /\ t.quantization.scales > 1) =>
       /\ tensorOut.quantization.qtype = "SYMMETRIC_PER_CHANNEL"
       /\ tensorOut.quantization.channel_dim \in 0 .. (Len(tensorOut.shape) - 1)
       /\ tensorOut.shape[tensorOut.quantization.channel_dim + 1]
            = t.dims[t.quantization.quantized_dimension + 1]

\* C14 as stated: a CONSTANT tensor with a non-empty permutation is bound to
\* the transposed bytes, and when the transpose fails (no data, or an
\* element type it has no case for) no tensor is made from the bytes behind
\* the descriptor's original pointer.
C14_ConstantNeedsTranspose ==
  (tensorOut # NoTensor /\ tensorIn.attr = "CONSTANT" /\ tensorIn.perm # <<>>) =>
    IF TransposeTensorData(tensorIn.tensor, tensorIn.data, tensorIn.perm).ok
      THEN tensorOut.created /\ tensorOut.data.src = "transposed"
      ELSE ~(tensorOut.created /\ tensorOut.data = tensorIn.data)

\* The tensor indices the nodes of the subgraph name as operands.
Operands ==
  UNION {SeqRange(operations_[i].inputs) \cup SeqRange(operations_[i].outputs) :
           i \in DOMAIN operations_} \ {OptionalTensor}

\* The class the build is to give the tensor of index t in tensors_.
ExpectedAttr(t) ==
  IF t \in Inputs THEN "INPUT"
  ELSE IF t \in Outputs THEN "OUTPUT"
  ELSE IF hostData[t] # NullData THEN "CONSTANT"
  ELSE IF host.tensors[t].is_variable THEN "VARIABLE"
  ELSE "TRANSIENT"

\* Every index the subgraph touches has a tensor in tensors_ once built, and
\* every tensor of tensors_ has the class expected of its index.
ClassesAsExpected ==
  /\ compiled_ =>
       \A t \in Inputs \cup Outputs \cup Operands :
         \E h \in DOMAIN vx : vx[h].tbl = "tensors_" /\ vx[h].idx = t
  /\ \A h \in DOMAIN vx :
       (vx[h].tbl = "tensors_" /\ vx[h].idx \in TensorIds) =>
         vx[h].tensor.attr = ExpectedAttr(vx[h].idx)

HandlesOf(lowered) ==
  SeqRange(lowered.inputs) \cup SeqRange(lowered.outputs) \cup SeqRange(lowered.states)

\* The events of one kind in a trace, in order.
RECURSIVE EvSeq(_, _)
EvSeq(tr, kind) ==
  IF tr = <<>> THEN <<>>
  ELSE IF Head(tr).e = kind THEN <<Head(tr)>> \o EvSeq(Tail(tr), kind)
  ELSE EvSeq(Tail(tr), kind)

\* C16: the build lowers every node of operations_ exactly once, in the
\* order of the accepted list, before layout inference and before compile;
\* and every input, output and state handle given to the lowering of a node
\* is a tensor that was created earlier in the build, never a null one.
C16_LoweredOnceInOrder ==
  /\ \A g \in DOMAIN graph_ :
       /\ graph_[g].op = g
       /\ NullHandle \notin HandlesOf(graph_[g])
  /\ invokes >= 1 => Len(graph_) = Len(operations_)
  /\ Built(trace) =>
       /\ [i \in 1 .. Len(EvSeq(trace, "lower")) |-> EvSeq(trace, "lower")[i].idx]
            = [i \in 1 .. Len(operations_) |-> i]
       /\ \A l \in EvPos(trace, "lower") :
            /\ \A y \in EvPos(trace, "layout") \cup EvPos(trace, "compile") : l < y
            /\ \A h \in HandlesOf(graph_[trace[l].idx]) :
                 \E c \in EvPos(trace, "create") \cup EvPos(trace, "placeholder") :
                   trace[c].h = h /\ c < l
       /\ \A y \in EvPos(trace, "layout"), c \in EvPos(trace, "compile") : y < c

C16_Witness ==
  /\ Built(trace) /\ compiled_ /\ Len(graph_) = 2
  /\ \E g \in DOMAIN graph_ : OptionalTensor \in SeqRange(operations_[g].inputs)
  /\ \E g \in DOMAIN graph_ : graph_[g].states # <<>>

\* C17: once the graph is built, every subgraph input and output index has
\* a tensor in tensors_ and every state index has one in state_tensors_, so
\* no copy loop of Invoke logs a missing handle: the only FATAL lines are
\* those of a failed compile and of a failed run.
C17_NoMissingHandle ==
  /\ compiled_ =>
       /\ \A i \in Inputs \cup Outputs : tensors_[i] # NullHandle
       /\ \A i \in States : state_tensors_[i] # NullHandle
  /\ \A f \in EvPos(trace, "fatal") :
       trace[f].tbl \in {"Failed to verify graph", "Failed to run graph"}

C17_Witness ==
  /\ compiled_ /\ invokes >= 2 /\ phase = "ready"
  /\ Inputs # {} /\ Outputs # {} /\ States # {}
  /\ Len(EvSeq(trace, "copy_in")) = Cardinality(Inputs)
  /\ Len(EvSeq(trace, "copy_out")) = Len(op_data.subgraph_outputs)
  /\ Len(EvSeq(trace, "copy_state")) = Len(op_data.subgraph_states)

\* The entry of a table after the creations logged in a trace: the handle
\* of the creation of index t in that table, or the entry as it was.
EntryAfter(tr, tbl, t, was) ==
  LET made == {c \in EvPos(tr, "create") \cup EvPos(tr, "placeholder") :
                 tr[c].tbl = tbl /\ tr[c].idx = t}
  IN IF made = {} THEN was ELSE tr[CHOOSE c \in made : TRUE].h

ExecutionEvents(tr) ==
  EvPos(tr, "copy_in") \cup EvPos(tr, "run") \cup EvPos(tr, "copy_out")
    \cup EvPos(tr, "copy_state")

\* C18: an Invoke that starts with compiled_ true leaves tensors_ and
\* state_tensors_ as they are; in the first Invoke every creation comes
\* before the first copy, and the tables at its end are the tables the
\* build's creations made: the copy-in, run, copy-out and state-copy part
\* creates, replaces and clears no entry.
C18_TablesWrittenOnlyByBuild ==
  [][invokes' # invokes =>
       /\ compiled_ => (tensors_' = tensors_ /\ state_tensors_' = state_tensors_)
       /\ \A c \in EvPos(trace', "create") \cup EvPos(trace', "placeholder"),
             x \in ExecutionEvents(trace') : c < x
       /\ \A t \in 0 .. NumTensors :
            /\ tensors_'[t] = EntryAfter(trace', "tensors_", t, tensors_[t])
            /\ state_tensors_'[t] = EntryAfter(trace', "state_tensors_", t, state_tensors_[t])]_vars

C18_Witness ==
  /\ invokes = 1 /\ compiled_ /\ phase = "ready"
  /\ Built(trace) /\ EvPos(trace, "copy_out") # {} /\ EvPos(trace, "copy_state") # {}
  /\ \E t \in TensorIds : tensors_[t] # NullHandle /\ state_tensors_[t] # NullHandle

\* ---------------------------------------------------------------- C19, C20
\* Delegate::Init has returned: the records of the accepted nodes are kept.
Extracted == operations_ # <<>>

\* The host's lists for the accepted nodes: their nodes, and the input
\* tensors of the subset.
AcceptedNodes == [i \in 1 .. Len(NodesToReplace) |-> host.nodes[NodesToReplace[i]]]
HostInputs == HostInputTensors(AcceptedNodes)

\* The subgraph inputs are the entries of the host's input list that
\* satisfy keep, each once and in the order of that list.
InputsAreKept(keep(_)) ==
  /\ Inputs = {t \in SeqRange(HostInputs) : keep(t)}
  /\ Distinct(op_data.subgraph_inputs)
  /\ \A i, j \in DOMAIN op_data.subgraph_inputs :
       i < j => PlanPos(HostInputs, op_data.subgraph_inputs[i])
                  < PlanPos(HostInputs, op_data.subgraph_inputs[j])

LacksData(t) == ~IsConstTensor(host.tensors[t].init)
NotReadOnly(t) == host.tensors[t].allocation_type # "kTfLiteMmapRo"

ReportedStates(i) ==
  IF AcceptedNodes[i].statesOk THEN AcceptedNodes[i].states ELSE <<>>

RECURSIVE StatesBefore(_)
StatesBefore(i) ==
  IF i <= 1 THEN 0 ELSE StatesBefore(i - 1) + Len(ReportedStates(i - 1))

\* C20: after extraction every accepted node's state list holds the state
\* indices its catalog entry reports, and the subgraph-level state sequence
\* is the concatenation of these lists in node order; an Invoke that returns
\* copies the states of exactly this sequence, so every state tensor of
\* every node is copied.
C20_StatesAggregated ==
  Extracted =>
    /\ Len(operations_) = Len(AcceptedNodes)
    /\ \A i \in DOMAIN operations_ : operations_[i].states = ReportedStates(i)
    /\ Len(op_data.subgraph_states) = StatesBefore(Len(operations_) + 1)
    /\ \A i \in DOMAIN operations_ : \A k \in DOMAIN ReportedStates(i) :
         op_data.subgraph_states[StatesBefore(i) + k] = ReportedStates(i)[k]
    /\ Returned =>
         /\ [p \in DOMAIN EvSeq(trace, "copy_state") |-> EvSeq(trace, "copy_state")[p].idx]
              = op_data.subgraph_states
         /\ \A i \in DOMAIN operations_ : \A t \in SeqRange(ReportedStates(i)) :
              \E p \in EvPos(trace, "copy_state") : trace[p].idx = t

C20_Witness ==
  /\ Extracted /\ Returned
  /\ Len(operations_) = 2
  /\ operations_[1].states # <<>> /\ operations_[2].states # <<>>
  /\ operations_[1].states # operations_[2].states
  /\ Cardinality(EvPos(trace, "copy_state")) = 2

\* ---------------------------------------------------------------------- C21
\* The calls of the log that return a handle, and those that free one.
CreateCalls == {i \in DOMAIN apiCalls : apiCalls[i].op \in {"VxDelegate", "VxDelegateCreate"}}
DeleteCalls == {i \in DOMAIN apiCalls : apiCalls[i].op = "VxDelegateDelete"
                                          /\ apiCalls[i].arg # NullPtr}

\* C21: in every sequence of VxDelegate, VxDelegateCreate and
\* VxDelegateDelete calls, every create call returns the same handle, the
\* handle a create call returns is live when it is returned (no
\* VxDelegateDelete has freed it), and no handle is deleted twice.
C21_SingletonHandleLive ==
  /\ \A i, j \in CreateCalls : apiCalls[i].result = apiCalls[j].result
  /\ \A i \in CreateCalls : apiCalls[i].live
  /\ \A i, j \in DeleteCalls : apiCalls[i].arg = apiCalls[j].arg => i = j

\* ---------------------------------------------------------------------- C22
\* The slot of tensors_ kept for the placeholder: the last of T slots,
\* T = tensors_size + 1.
PlaceholderSlot == NumTensors

\* The slot an index of a node's list stands for.
SlotOf(index) == IF index = OptionalTensor THEN PlaceholderSlot ELSE index

\* The handles a lowered operation was given for a list of indices are
\* those of the slots the indices stand for.
ResolvedBySlot(table, indexes, handles) ==
  /\ Len(handles) = Len(indexes)
  /\ \A k \in DOMAIN indexes : handles[k] = table[SlotOf(indexes[k])]

\* C22: against a table of T = tensors_size + 1 slots the optional index -1
\* resolves to the last slot T - 1, which holds the placeholder, and every
\* index i of 0 .. tensors_size - 1 resolves to its own slot i, never to the
\* placeholder's; no tensor is ever created for the index -1, and the
\* placeholder's slot is written by the placeholder step only.
C22_OptionalIndexResolution ==
  Built(trace) =>
    /\ MapIndexToTensor(tensors_, OptionalTensor) = tensors_[PlaceholderSlot]
    /\ \A i \in TensorIds :
         /\ MapIndexToTensor(tensors_, i) = tensors_[i]
         /\ MapIndexToTensor(state_tensors_, i) = state_tensors_[i]
         /\ i # PlaceholderSlot
    /\ \A g \in DOMAIN graph_ :
         /\ ResolvedBySlot(tensors_, operations_[graph_[g].op].inputs, graph_[g].inputs)
         /\ ResolvedBySlot(tensors_, operations_[graph_[g].op].outputs, graph_[g].outputs)
         /\ ResolvedBySlot(state_tensors_, operations_[graph_[g].op].states, graph_[g].states)
         /\ \A k \in DOMAIN graph_[g].inputs :
              (graph_[g].inputs[k] = tensors_[PlaceholderSlot])
                <=> (operations_[graph_[g].op].inputs[k] = OptionalTensor)
    /\ \A c \in EvPos(trace, "create") :
         trace[c].idx # OptionalTensor /\ trace[c].idx # PlaceholderSlot
    /\ \A c \in EvPos(trace, "placeholder") :
         trace[c].idx = PlaceholderSlot /\ trace[c].h = tensors_[PlaceholderSlot]

C22_Witness ==
  /\ Built(trace) /\ compiled_
  /\ \E g \in DOMAIN graph_ :
       /\ OptionalTensor \in SeqRange(operations_[graph_[g].op].inputs)
       /\ tensors_[PlaceholderSlot] \in SeqRange(graph_[g].inputs)
       /\ \E k \in DOMAIN graph_[g].inputs :
            graph_[g].inputs[k] \notin {NullHandle, tensors_[PlaceholderSlot]}
  /\ tensors_[PlaceholderSlot] # NullHandle

====
